---- MODULE Spec2Model ----
(***************************************************************************)
(* Model of Git++ (VCS::run, Repository::Repository,                       *)
(* Repository::RepositoryPath, Repository::InitRepository) over an         *)
(* explicit filesystem.                                                    *)
(*                                                                         *)
(* A string is a sequence of tokens; the tokens "\\" (backslash) and "/"   *)
(* are single characters, every other token is a run of ordinary           *)
(* characters.  A filesystem path is what std::filesystem makes of such a  *)
(* string on the host: a sequence of segments, each segment the sequence   *)
(* of tokens between two separators.  On a POSIX host the backslash is an  *)
(* ordinary filename character, on Windows it separates segments.          *)
(***************************************************************************)
EXTENDS Integers, Sequences, FiniteSets, TLC

VARIABLES
    os,           \* host the program was built for: "windows" or "posix"
    fs,           \* filesystem: path |-> entry
    console,      \* what has been written to std::cout
    pc,           \* position inside Repository::InitRepository, "idle" outside
    path,         \* VCS::path
    command,      \* CommandLine::m_command after Parse
    dispatched,   \* number of core operations the last VCS::run called
    m_worktree,   \* Repository::m_worktree
    m_vcsdir,     \* Repository::m_vcsdir
    result,       \* outcome of the last operation
    succeeded,    \* worktrees on which an InitRepository returned normally
    interrupted,  \* worktrees whose InitRepository was killed after its checks
    runs          \* operations started so far

vars == <<os, fs, console, pc, path, command, dispatched, m_worktree,
          m_vcsdir, result, succeeded, interrupted, runs>>

----------------------------------------------------------------------------
\* Bounds of the model.

MaxRuns == 2

NumGarbage == 2

----------------------------------------------------------------------------
\* Program constants.

DescWriteCount == 1024

HeadWriteCount == 1024

DescTextLen == 73

HeadTextLen == 23

DescText == "Unnamed repository; edit this file 'description' to name the repository.\n"

HeadText == "ref: refs/heads/master\n"

Backslash == "\\"

Slash == "/"

VcsDirLiteral == <<Backslash, ".VCS++", Backslash>>

Hosts == {"windows", "posix"}

\* The commands the core is to expose, one operation each.
Commands ==
    {"init", "add", "commit", "status", "log", "checkout", "branch", "reset", "show"}

\* What may follow the bytes of a string literal in the program image.
Garbage == 1..NumGarbage

----------------------------------------------------------------------------
\* Strings and paths.

\* strlen of the two literals InitRepository writes.
StrLen(text) == IF text = HeadText THEN HeadTextLen ELSE DescTextLen

\* The separators std::filesystem recognises on the host.
IsSeparator(host, tok) == tok = Slash \/ (host = "windows" /\ tok = Backslash)

RECURSIVE Split(_, _, _, _)
Split(host, str, cur, acc) ==
    IF str = <<>>
    THEN IF cur = <<>> THEN acc ELSE Append(acc, cur)
    ELSE IF IsSeparator(host, Head(str))
         THEN Split(host, Tail(str), <<>>, IF cur = <<>> THEN acc ELSE Append(acc, cur))
         ELSE Split(host, Tail(str), Append(cur, Head(str)), acc)

\* The filesystem path a string names on the host.
PathOf(host, str) == Split(host, str, <<>>, <<>>)

\* std::filesystem::current_path().string(): the native spelling of a
\* directory given by its segment names.
RECURSIVE NativeString(_, _)
NativeString(host, names) ==
    IF names = <<>> THEN <<>>
    ELSE <<IF host = "windows" THEN Backslash ELSE Slash, Head(names)>>
         \o NativeString(host, Tail(names))

Parent(p) == SubSeq(p, 1, Len(p) - 1)

IsPrefix(p, q) == Len(p) <= Len(q) /\ SubSeq(q, 1, Len(p)) = p

----------------------------------------------------------------------------
\* Filesystem.

DirEntry == [kind |-> "dir", text |-> "", size |-> 0, tail |-> 0]

FileEntry(text, size, tail) == [kind |-> "file", text |-> text, size |-> size, tail |-> tail]

Exists(f, p) == p \in DOMAIN f

IsDirectory(f, p) == p \in DOMAIN f /\ f[p].kind = "dir"

IsRegularFile(f, p) == p \in DOMAIN f /\ f[p].kind = "file"

Children(f, p) == {q \in DOMAIN f : Len(q) = Len(p) + 1 /\ IsPrefix(p, q)}

\* std::filesystem::is_empty: a directory without entries, a file without bytes.
IsEmpty(f, p) == IF f[p].kind = "dir" THEN Children(f, p) = {} ELSE f[p].size = 0

Prefixes(p) == {SubSeq(p, 1, n) : n \in 0..Len(p)}

\* std::filesystem::create_directories: fails (throws) when a component of
\* the path is not a directory, otherwise creates every missing component.
CanCreateDirectories(f, p) == \A q \in Prefixes(p) : Exists(f, q) => IsDirectory(f, q)

CreateDirectories(f, p) ==
    [q \in DOMAIN f \cup Prefixes(p) |-> IF q \in DOMAIN f THEN f[q] ELSE DirEntry]

\* std::ofstream's constructor: creates or truncates the file; the stream is
\* left in a failed state when the file cannot be opened.
CanOpen(f, p) == p # <<>> /\ IsDirectory(f, Parent(p)) /\ ~IsDirectory(f, p)

OfstreamOpen(f, p) ==
    IF CanOpen(f, p)
    THEN [q \in DOMAIN f \cup {p} |-> IF q = p THEN FileEntry("", 0, 0) ELSE f[q]]
    ELSE f

\* ostream::write(text, count) followed by close(): count bytes starting at
\* the literal reach the file.  The literal holds StrLen(text) + 1 bytes; a
\* larger count reads past its end and the bytes found there (tail) are
\* whatever the program image holds.  A failed stream writes nothing.
OfstreamWrite(f, p, text, count, tail) ==
    IF IsRegularFile(f, p)
    THEN [f EXCEPT ![p] = FileEntry(text, count,
                                    IF count > StrLen(text) + 1 THEN tail ELSE 0)]
    ELSE f

----------------------------------------------------------------------------
\* The directories of the model: one parent directory holding two worktree
\* directories and one regular file.

WorktreeDirs == {<<"p", "A">>, <<"p", "B">>}

NotADirectory == <<"p", "F">>

\* Repository::Repository: m_vcsdir = path + "\\.VCS++\\".
VcsDir(p) == p \o VcsDirLiteral

\* Repository::RepositoryPath: result = m_vcsdir, then + "\\" + elem for each.
RECURSIVE RepositoryPathString(_, _)
RepositoryPathString(vcsdir, element) ==
    IF element = <<>> THEN vcsdir
    ELSE RepositoryPathString(vcsdir \o <<Backslash, Head(element)>>, Tail(element))

\* The path InitRepository opens for a file of the metadata directory.
FileString(vcsdir, name) == vcsdir \o <<name>>

\* InitRepository with HEAD written before description.
InitOrderHeadFirst ==
    <<"mk_branches", "mk_objects", "mk_tags", "mk_heads",
      "open_head", "write_head", "open_desc", "write_desc">>

\* The order of the steps of InitRepository after its checks.
InitOrder ==
    <<"mk_branches", "mk_objects", "mk_tags", "mk_heads",
      "open_desc", "write_desc", "open_head", "write_head">>

NextPc(step) ==
    LET i == CHOOSE k \in 1..Len(InitOrder) : InitOrder[k] = step
    IN  IF i = Len(InitOrder) THEN "idle" ELSE InitOrder[i + 1]

\* What the metadata directory of worktree B holds before the program runs.
PreStates == {"absent", "empty", "populated"}

InitialFs(host, pre) ==
    LET root == <<>>
        dirP == PathOf(host, NativeString(host, <<"p">>))
        dirA == PathOf(host, NativeString(host, <<"p", "A">>))
        dirB == PathOf(host, NativeString(host, <<"p", "B">>))
        fileF == PathOf(host, NativeString(host, NotADirectory))
        metaB == PathOf(host, VcsDir(NativeString(host, <<"p", "B">>)))
        base == (root :> DirEntry) @@ (dirP :> DirEntry) @@ (dirA :> DirEntry)
                @@ (dirB :> DirEntry) @@ (fileF :> FileEntry("user", 5, 0))
    IN  CASE pre = "absent" -> base
          [] pre = "empty" -> base @@ (metaB :> DirEntry)
          [] pre = "populated" ->
                base @@ (metaB :> DirEntry)
                     @@ (Append(metaB, <<"keep">>) :> FileEntry("user", 5, 0))

Init ==
    /\ os \in Hosts
    /\ \E pre \in PreStates : fs = InitialFs(os, pre)
    /\ console = <<>>
    /\ pc = "idle"
    /\ path = <<>>
    /\ command = ""
    /\ dispatched = 0
    /\ m_worktree = <<>>
    /\ m_vcsdir = <<>>
    /\ result = "none"
    /\ succeeded = {}
    /\ interrupted = {}
    /\ runs = 0

----------------------------------------------------------------------------
\* Operations.

\* Repository::Repository(path), followed by the call of InitRepository.
Construct(p) ==
    /\ m_worktree' = p
    /\ m_vcsdir' = VcsDir(p)
    /\ console' = Append(console, <<VcsDir(p), " : Path for the VCS++ !">>)
    /\ pc' = "init_check"
    /\ result' = "running"

\* CommandLine::Parse: the command is the first argument after the program name.
ParseCommand(argv) == argv[2]

\* The argument vectors the program is started with.
ArgVectors == {<<"Git++">>} \cup {<<"Git++", cmd>> : cmd \in Commands}

\* VCS::run(argc, argv), started in directory cwd.
Run(argv, cwd) ==
    /\ pc = "idle"
    /\ runs < MaxRuns
    /\ runs' = runs + 1
    /\ IF Len(argv) < 2
       THEN /\ console' = Append(console, <<"Usage Git++ <command> [<arguments>]">>)
            /\ result' = "usage"
            /\ UNCHANGED <<pc, path, command, dispatched, m_worktree, m_vcsdir>>
       ELSE /\ command' = ParseCommand(argv)
            /\ path' = NativeString(os, cwd)
            /\ IF ParseCommand(argv) = "init"
               THEN /\ dispatched' = 1
                    /\ Construct(NativeString(os, cwd))
               ELSE /\ dispatched' = 0
                    /\ result' = "returned"
                    /\ UNCHANGED <<pc, console, m_worktree, m_vcsdir>>
    /\ UNCHANGED <<os, fs, succeeded, interrupted>>

\* A caller of the class itself: Repository repo(p); repo.InitRepository();
NewRepository(p) ==
    /\ pc = "idle"
    /\ runs < MaxRuns
    /\ runs' = runs + 1
    /\ Construct(p)
    /\ UNCHANGED <<os, fs, path, command, dispatched, succeeded, interrupted>>

\* throw std::runtime_error / std::filesystem::filesystem_error
Throw ==
    /\ pc' = "idle"
    /\ result' = "error"
    /\ UNCHANGED <<succeeded>>

\* Control moves to the next step; past the last one InitRepository returns.
Advance(step) ==
    /\ pc' = NextPc(step)
    /\ IF NextPc(step) = "idle"
       THEN result' = "ok" /\ succeeded' = succeeded \cup {m_worktree}
       ELSE UNCHANGED <<result, succeeded>>

\* InitRepository: the two checks that precede every write.
InitCheck ==
    /\ pc = "init_check"
    /\ IF ~IsDirectory(fs, PathOf(os, m_worktree))
       THEN Throw
       ELSE IF Exists(fs, PathOf(os, m_vcsdir)) /\ ~IsEmpty(fs, PathOf(os, m_vcsdir))
            THEN Throw
            ELSE pc' = InitOrder[1] /\ UNCHANGED <<result, succeeded>>
    /\ UNCHANGED <<os, fs, console, path, command, dispatched, m_worktree,
                   m_vcsdir, interrupted, runs>>

\* RepositoryPath(element, true)
MkDir(step, element) ==
    /\ pc = step
    /\ LET str == RepositoryPathString(m_vcsdir, element)
       IN  IF CanCreateDirectories(fs, PathOf(os, str))
           THEN /\ fs' = CreateDirectories(fs, PathOf(os, str))
                /\ console' = Append(console, <<"Created a Directory named ", str, ".">>)
                /\ Advance(step)
           ELSE /\ Throw
                /\ UNCHANGED <<fs, console>>
    /\ UNCHANGED <<os, path, command, dispatched, m_worktree, m_vcsdir,
                   interrupted, runs>>

MkBranches == MkDir("mk_branches", <<"branches">>)

MkObjects == MkDir("mk_objects", <<"objects">>)

MkTags == MkDir("mk_tags", <<"refs", "tags">>)

MkHeads == MkDir("mk_heads", <<"refs", "heads">>)

\* std::ofstream f(m_vcsdir + name);
OpenFile(step, name) ==
    /\ pc = step
    /\ fs' = OfstreamOpen(fs, PathOf(os, FileString(m_vcsdir, name)))
    /\ Advance(step)
    /\ UNCHANGED <<os, console, path, command, dispatched, m_worktree, m_vcsdir,
                   interrupted, runs>>

\* f.write(text, count); f.close();  The bytes read past the end of the
\* literal are any of Garbage; a fault while reading them ends the process,
\* which is Terminate taken at this step.
WriteFile(step, name, text, count) ==
    /\ pc = step
    /\ \E tail \in Garbage :
          fs' = OfstreamWrite(fs, PathOf(os, FileString(m_vcsdir, name)), text, count, tail)
    /\ Advance(step)
    /\ UNCHANGED <<os, console, path, command, dispatched, m_worktree, m_vcsdir,
                   interrupted, runs>>

OpenDescription == OpenFile("open_desc", "description")

WriteDescription == WriteFile("write_desc", "description", DescText, DescWriteCount)

OpenHead == OpenFile("open_head", "HEAD")

WriteHead == WriteFile("write_head", "HEAD", HeadText, HeadWriteCount)

\* The process is killed while InitRepository is running.
Terminate ==
    /\ pc # "idle"
    /\ pc' = "idle"
    /\ result' = "killed"
    /\ interrupted' = IF pc = "init_check" THEN interrupted
                      ELSE interrupted \cup {m_worktree}
    /\ UNCHANGED <<os, fs, console, path, command, dispatched, m_worktree,
                   m_vcsdir, succeeded, runs>>

Next ==
    \/ \E argv \in ArgVectors, cwd \in WorktreeDirs : Run(argv, cwd)
    \/ \E names \in WorktreeDirs \cup {NotADirectory} : NewRepository(NativeString(os, names))
    \/ InitCheck
    \/ MkBranches
    \/ MkObjects
    \/ MkTags
    \/ MkHeads
    \/ OpenDescription
    \/ WriteDescription
    \/ OpenHead
    \/ WriteHead
    \/ Terminate

Spec == Init /\ [][Next]_vars

----------------------------------------------------------------------------
\* Properties.

\* An InitRepository has just returned normally.
InitReturned == pc = "idle" /\ result = "ok"

\* The step taken ends an InitRepository that was not killed.
InitEnds == pc # "idle" /\ pc' = "idle" /\ result' # "killed"

MetaDir == PathOf(os, m_vcsdir)

UnderMeta(names) == MetaDir \o [i \in 1..Len(names) |-> <<names[i]>>]

\* C1: after a successful init the directory refs/heads exists under the
\* metadata directory and is empty, and refs/heads/master, the reference HEAD
\* names, does not exist.
InitCreatesEmptyRefsHeads ==
    InitReturned =>
        /\ IsDirectory(fs, UnderMeta(<<"refs", "heads">>))
        /\ Children(fs, UnderMeta(<<"refs", "heads">>)) = {}
        /\ ~Exists(fs, UnderMeta(<<"refs", "heads", "master">>))

\* C2: after a successful init HEAD holds exactly the line
\* "ref: refs/heads/master\n" and description exactly its text: the number of
\* bytes written equals the length of the text and nothing follows it.
HeadIsExactlyTheLine ==
    InitReturned =>
        LET head == PathOf(os, FileString(m_vcsdir, "HEAD"))
            desc == PathOf(os, FileString(m_vcsdir, "description"))
        IN  /\ IsRegularFile(fs, head)
            /\ fs[head].text = HeadText
            /\ fs[head].size = HeadTextLen
            /\ fs[head].tail = 0
            /\ IsRegularFile(fs, desc)
            /\ fs[desc].size = DescTextLen
            /\ fs[desc].tail = 0

\* C3: after a successful init on worktree W the metadata directory is a
\* directory inside W holding objects, refs/heads, refs/tags, HEAD and
\* description, and the strings naming them are joined with forward slashes.
LayoutInsideWorktree ==
    InitReturned =>
        /\ IsDirectory(fs, MetaDir)
        /\ Parent(MetaDir) = PathOf(os, m_worktree)
        /\ IsDirectory(fs, UnderMeta(<<"objects">>))
        /\ IsDirectory(fs, UnderMeta(<<"refs", "heads">>))
        /\ IsDirectory(fs, UnderMeta(<<"refs", "tags">>))
        /\ IsRegularFile(fs, UnderMeta(<<"HEAD">>))
        /\ IsRegularFile(fs, UnderMeta(<<"description">>))
        /\ \A i \in 1..Len(RepositoryPathString(m_vcsdir, <<"refs", "heads">>)) :
              RepositoryPathString(m_vcsdir, <<"refs", "heads">>)[i] # Backslash

\* C4: every command of the set is dispatched to exactly one core operation.
EveryCommandDispatches == command \in Commands => dispatched = 1

\* C5: the core never prints: no step of the Repository constructor,
\* RepositoryPath or InitRepository changes the console.
CoreNeverPrints == [][(pc # "idle" \/ pc' # "idle") => console' = console]_vars

\* C6: an init that runs on a worktree whose earlier init was killed after
\* some of its steps completes successfully.
InterruptedInitRecovers ==
    [][(InitEnds /\ m_worktree \in interrupted /\ IsDirectory(fs, PathOf(os, m_worktree)))
          => result' = "ok"]_vars

\* C7: an operation on the handle of worktree A creates or modifies only
\* entries under A's worktree root; every other path is left unchanged.
HandleWritesOnlyUnderWorktree ==
    [][\A p \in DOMAIN fs' :
          (p \notin DOMAIN fs \/ fs'[p] # fs[p]) => IsPrefix(PathOf(os, m_worktree), p)]_vars

\* C9: an init that ends in an error changes nothing on the filesystem, and
\* after one successful init every later init on the same worktree ends in an
\* error and changes nothing.
FailedInitChangesNothing ==
    [][/\ (InitEnds /\ result' = "error") => fs' = fs
       /\ (InitEnds /\ m_worktree \in succeeded) => (result' = "error" /\ fs' = fs)]_vars

\* The paths InitRepository builds for the worktree with native spelling w.
DirOf(w, element) == PathOf(os, RepositoryPathString(VcsDir(w), element))

FileOf(w, name) == PathOf(os, FileString(VcsDir(w), name))

WorktreeStrings == {NativeString(os, names) : names \in WorktreeDirs}

\* C10: in every reachable state, also in the middle of an init and after a
\* killed one, if the HEAD file exists then the directories objects,
\* refs/heads and refs/tags and the file description exist.
HeadImpliesLayout ==
    \A w \in WorktreeStrings :
        IsRegularFile(fs, FileOf(w, "HEAD")) =>
            /\ IsDirectory(fs, DirOf(w, <<"objects">>))
            /\ IsDirectory(fs, DirOf(w, <<"refs", "heads">>))
            /\ IsDirectory(fs, DirOf(w, <<"refs", "tags">>))
            /\ IsRegularFile(fs, FileOf(w, "description"))

\* An init was killed right after it had created HEAD, before writing it.
HeadExistsAfterKill ==
    /\ pc = "idle"
    /\ result = "killed"
    /\ IsRegularFile(fs, FileOf(m_worktree, "HEAD"))
    /\ fs[FileOf(m_worktree, "HEAD")].size = 0

====
